---- MODULE Spec2Model ----
(***************************************************************************)
(* Nexus AI Agent (src/app.py): a Streamlit script that, on submit, runs a *)
(* two-node LangGraph loop (agent -> tools -> agent) twice, once streamed  *)
(* for progress lines and once blocking for the final report.              *)
(*                                                                         *)
(* The script is modelled at the granularity of one graph node execution: *)
(* ScriptRun is the top of one script run (lines 171-201), AgentStep and   *)
(* ToolsStep are one superstep of the compiled graph, GraphRecursionError  *)
(* is the runtime's step limit, StreamDone / InvokeDone / Except are the   *)
(* three ways the driver (lines 202-230) leaves a pass.                    *)
(*                                                                         *)
(* The remote generation service, the search service, the user and the     *)
(* installed ToolNode's error handling are the environment: their outcomes *)
(* are drawn with \E (per call) or fixed in Init (per deployment).         *)
(***************************************************************************)
EXTENDS Integers, Sequences, FiniteSets, TLC

\* The graph runtime stops a pass after this many node executions
\* (LangGraph's default recursion_limit is 25; app.stream / app.invoke are
\* called without a config, so the default applies).  Kept small here.
RecursionLimit == 4

None == "None"

\* ------------------------------------------------------------- environment

\* What a credential source can hold: nothing, or a key.
KeyValues == {None, "key"}

\* What the user can have typed in the "Research Target" box.
TopicInputs == {"", "AI"}

\* Faults the remote services can raise.
LLMErrors == {"ResourceExhausted"}
SearchErrors == {"RatelimitException"}

\* Texts the remote services can return.  A text is a tuple of its pieces, so
\* that a formatted text keeps the values formatted into it; <<>> is the
\* empty text.
Reports == {<<"report A">>, <<"report B">>}
SearchResults == {<<"results">>}

WebSearchCall(q) == [name |-> "web_search", query |-> q]

\* The tool-call lists a reply can carry: one search, two parallel
\* searches, or a call to a tool that was never bound.
CallLists ==
  { <<WebSearchCall("q1")>>,
    <<WebSearchCall("q1"), WebSearchCall("q2")>>,
    <<[name |-> "calculator", query |-> "q1"]>> }

\* One outcome of llm.invoke: it raises, or returns an AIMessage with text
\* and no tool call, or an AIMessage with tool calls.
LLMReplies ==
  { [raises |-> TRUE, error |-> e, content |-> <<>>, calls |-> <<>>] : e \in LLMErrors }
  \cup { [raises |-> FALSE, error |-> None, content |-> c, calls |-> <<>>] : c \in Reports }
  \cup { [raises |-> FALSE, error |-> None, content |-> <<>>, calls |-> cs] : cs \in CallLists }

\* One outcome of DuckDuckGoSearchRun().invoke(query).
SearchOutcomes ==
  { [raises |-> TRUE, value |-> e] : e \in SearchErrors }
  \cup { [raises |-> FALSE, value |-> r] : r \in SearchResults }

\* ------------------------------------------------------------------- state

VARIABLES
  secrets,            \* st.secrets["GOOGLE_API_KEY"], None when the key is not there
  environ,            \* os.environ["GOOGLE_API_KEY"], None when unset
  handle_tool_errors, \* whether the installed ToolNode turns a tool fault into text
  session_state,      \* st.session_state: [run, topic]; an absent 'run' reads as FALSE
  button,             \* what the submit button did in the current script run
  uiPc,               \* where the script is: "idle", "stream" or "invoke"
  messages,           \* AgentState["messages"] of the pass under way
  node,               \* the graph's next node: "agent", "tools", "__end__", "raised"
  step,               \* node executions of the pass so far
  exc,                \* the exception a pass raised, None when none
  nextId,             \* the next fresh message / tool-call identifier
  progress,           \* the lines written into the st.status panel
  panel,              \* what column 2 shows: awaiting, report or error
  trace,              \* per pass, the node executions with the calls they issued
  rendered            \* the current RunRequest has had its report or failure shown

vars == << secrets, environ, handle_tool_errors, session_state, button, uiPc,
           messages, node, step, exc, nextId, progress, panel, trace, rendered >>

env == << secrets, environ, handle_tool_errors >>

\* ----------------------------------------------------------------- helpers

Last(s) == s[Len(s)]

IsPrefix(s, t) == Len(s) <= Len(t) /\ \A i \in 1..Len(s) : s[i] = t[i]

HumanMessage(content, id) ==
  [type |-> "human", content |-> content, tool_calls |-> <<>>, tool_call_id |-> None, id |-> id]

\* An AIMessage; its tool calls get identifiers of their own.
AIMessage(content, calls, id) ==
  [type |-> "ai", content |-> content,
   tool_calls |-> [k \in 1..Len(calls) |->
                     [name |-> calls[k].name, args |-> [query |-> calls[k].query],
                      id |-> <<id, k>>]],
   tool_call_id |-> None, id |-> id]

ToolMessage(content, call, id) ==
  [type |-> "tool", content |-> content, tool_calls |-> <<>>,
   tool_call_id |-> call.id, id |-> id]

\* add_messages with the reducer dropped: the update replaces the list.
add_messages_overwrite(left, right) == right

\* langgraph.graph.message.add_messages, the reducer of AgentState.messages:
\* a message of the update whose id is already in the list replaces that
\* message in place, any other is appended.
RECURSIVE add_messages(_, _)
add_messages(left, right) ==
  IF right = <<>> THEN left
  ELSE LET m == right[1]
           hit == {i \in 1..Len(left) : left[i].id = m.id}
       IN IF hit = {}
          THEN add_messages(Append(left, m), Tail(right))
          ELSE add_messages([left EXCEPT ![CHOOSE i \in hit : TRUE] = m], Tail(right))

\* st.secrets.get("GOOGLE_API_KEY", os.getenv("GOOGLE_API_KEY"))
api_key == IF secrets # None THEN secrets ELSE environ

\* The missing-key test never firing.
ApiKeyMissingNever == FALSE

\* `if not api_key`
ApiKeyMissing == api_key = None

\* The text of the sentinel message of line 132 (its emoji left out).
ConfigErrorText == << "**System Alert:** API Key missing. Check Settings." >>

\* hasattr(msg, 'tool_calls') and msg.tool_calls
HasToolCalls(m) == m.type = "ai" /\ m.tool_calls # <<>>

\* should_continue routing every message to the tools node.
should_continue_always_tools(msgs) == "tools"

should_continue(msgs) ==
  IF HasToolCalls(Last(msgs)) THEN "tools" ELSE "__end__"

\* inputs = {"messages": [("user", f"Research: '{topic}'. Write a structured report.")]}
Inputs == << HumanMessage(<<"Research: '", session_state.topic, "'. Write a structured report.">>, 1) >>

EmptyTrace == [stream |-> <<>>, invoke |-> <<>>]

\* What goes over the wire to the generation service: the history without
\* the local message identifiers.
Wire(msgs) ==
  [i \in 1..Len(msgs) |->
     [type |-> msgs[i].type, content |-> msgs[i].content,
      calls |-> [k \in 1..Len(msgs[i].tool_calls) |->
                   [name |-> msgs[i].tool_calls[k].name,
                    args |-> msgs[i].tool_calls[k].args]]]]

\* --------------------------------------------------------------- the nodes

\* agent_node with the remote call wrapped in a try/except that turns the
\* fault into an assistant message.
agent_node_catching(reply) ==
  IF ApiKeyMissing
  THEN [raised |-> FALSE, error |-> None, called |-> FALSE,
        update |-> << AIMessage(ConfigErrorText, <<>>, nextId) >>]
  ELSE IF reply.raises
  THEN [raised |-> FALSE, error |-> None, called |-> TRUE,
        update |-> << AIMessage(<< reply.error >>, <<>>, nextId) >>]
  ELSE [raised |-> FALSE, error |-> None, called |-> TRUE,
        update |-> << AIMessage(reply.content, reply.calls, nextId) >>]

\* agent_node: without a key the sentinel message and no remote call; with
\* one, llm.invoke(state["messages"]), whose fault nothing here catches.
agent_node(reply) ==
  IF ApiKeyMissing
  THEN [raised |-> FALSE, error |-> None, called |-> FALSE,
        update |-> << AIMessage(ConfigErrorText, <<>>, nextId) >>]
  ELSE IF reply.raises
  THEN [raised |-> TRUE, error |-> reply.error, called |-> TRUE, update |-> <<>>]
  ELSE [raised |-> FALSE, error |-> None, called |-> TRUE,
        update |-> << AIMessage(reply.content, reply.calls, nextId) >>]

\* tools = [web_search]
ToolNames == {"web_search"}

\* ToolContent handing back the query instead of the search's output.
ToolContentEcho(call, out) ==
  IF call.name \notin ToolNames
  THEN << "Error: ", call.name, " is not a valid tool, try one of [web_search]." >>
  ELSE << call.args.query >>

\* The content ToolNode gives the ToolMessage of one call, given what the
\* search did: the result, the handled fault as text, or the unknown-tool text.
ToolContent(call, out) ==
  IF call.name \notin ToolNames
  THEN << "Error: ", call.name, " is not a valid tool, try one of [web_search]." >>
  ELSE IF out.raises
  THEN << "Error: ", out.value, " Please fix your mistakes." >>
  ELSE out.value

\* The search calls one tools step issues: web_search(query) for every call
\* that names the tool, in the order of the calls.
RECURSIVE SearchCalls(_, _, _)
SearchCalls(calls, outs, k) ==
  IF k > Len(calls) THEN <<>>
  ELSE (IF calls[k].name \in ToolNames
        THEN << [cap |-> "search", arg |-> calls[k].args.query, out |-> outs[k]] >>
        ELSE <<>>) \o SearchCalls(calls, outs, k + 1)

\* ToolNode(tools) on the latest message: one ToolMessage per tool call.  A
\* fault of web_search (which catches nothing itself) is turned into text
\* when the node handles tool errors and leaves the node otherwise.
ToolNode(msgs, outs) ==
  LET calls == Last(msgs).tool_calls
      faults == {k \in 1..Len(calls) : calls[k].name \in ToolNames /\ outs[k].raises}
  IN IF faults # {} /\ ~handle_tool_errors
     THEN [raised |-> TRUE,
           error |-> outs[CHOOSE k \in faults : \A j \in faults : k <= j].value,
           calls |-> SearchCalls(calls, outs, 1), update |-> <<>>]
     ELSE [raised |-> FALSE, error |-> None,
           calls |-> SearchCalls(calls, outs, 1),
           update |-> [k \in 1..Len(calls) |->
                         ToolMessage(ToolContent(calls[k], outs[k]), calls[k], nextId + k - 1)]]

\* The input of the blocking pass being the streamed pass's final state.
InvokeInputStale == messages

\* app.invoke(inputs): the blocking pass starts from the same inputs.
InvokeInput == Inputs

\* ------------------------------------------------------------- the actions

Init ==
  /\ secrets \in KeyValues
  /\ environ \in KeyValues
  /\ handle_tool_errors \in BOOLEAN
  /\ session_state = [run |-> FALSE, topic |-> None]
  /\ button = "none"
  /\ uiPc = "idle"
  /\ messages = <<>>
  /\ node = None
  /\ step = 0
  /\ exc = None
  /\ nextId = 2
  /\ progress = <<>>
  /\ panel = [kind |-> "none", body |-> <<>>]
  /\ trace = EmptyTrace
  /\ rendered = FALSE

\* One script run up to the start of the loop (lines 171-201): the text
\* box holds `text`, the button was pressed or not.
ScriptRun(text, pressed) ==
  /\ uiPc = "idle"
  /\ button' = IF ~pressed THEN "none" ELSE IF text = "" THEN "warning" ELSE "submit"
  /\ session_state' = IF pressed /\ text # ""
                      THEN [run |-> TRUE, topic |-> text]
                      ELSE session_state
  /\ rendered' = IF pressed /\ text # "" THEN FALSE ELSE rendered
  /\ IF session_state'.run
     THEN /\ uiPc' = "stream"
          /\ messages' = add_messages(<<>>, Inputs')
          /\ node' = "agent"
          /\ step' = 0
          /\ exc' = None
          /\ nextId' = 2
          /\ progress' = <<>>
          /\ panel' = [kind |-> "status", body |-> <<>>]
          /\ trace' = EmptyTrace
     ELSE /\ panel' = [kind |-> "awaiting", body |-> <<>>]
          /\ UNCHANGED << uiPc, messages, node, step, exc, nextId, progress, trace >>
  /\ UNCHANGED env

\* The progress line the streamed pass writes for one agent event (lines 205-211).
ProgressLine(msg) ==
  IF HasToolCalls(msg)
  THEN << "Scanning Network: ", msg.tool_calls[1].args.query >>
  ELSE << "Synthesizing Data..." >>

\* One execution of the agent node, then should_continue.
AgentStep ==
  /\ uiPc \in {"stream", "invoke"}
  /\ node = "agent"
  /\ step < RecursionLimit
  /\ \E reply \in LLMReplies :
       LET r == agent_node(reply)
           entry == [node |-> "agent",
                     calls |-> IF r.called
                               THEN << [cap |-> "llm", arg |-> Wire(messages), out |-> reply] >>
                               ELSE <<>>]
       IN /\ trace' = [trace EXCEPT ![uiPc] = Append(@, entry)]
          /\ step' = step + 1
          /\ IF r.raised
             THEN /\ node' = "raised"
                  /\ exc' = r.error
                  /\ UNCHANGED << messages, nextId, progress >>
             ELSE /\ messages' = add_messages(messages, r.update)
                  /\ nextId' = nextId + 1
                  /\ node' = should_continue(messages')
                  /\ progress' = IF uiPc = "stream"
                                 THEN Append(progress, ProgressLine(r.update[1]))
                                 ELSE progress
                  /\ UNCHANGED exc
  /\ UNCHANGED << env, session_state, button, uiPc, panel, rendered >>

\* One execution of the tools node, then the edge back to the agent.
ToolsStep ==
  /\ uiPc \in {"stream", "invoke"}
  /\ node = "tools"
  /\ step < RecursionLimit
  /\ \E outs \in [1..Len(Last(messages).tool_calls) -> SearchOutcomes] :
       LET r == ToolNode(messages, outs)
       IN /\ trace' = [trace EXCEPT ![uiPc] = Append(@, [node |-> "tools", calls |-> r.calls])]
          /\ step' = step + 1
          /\ IF r.raised
             THEN /\ node' = "raised"
                  /\ exc' = r.error
                  /\ UNCHANGED << messages, nextId >>
             ELSE /\ messages' = add_messages(messages, r.update)
                  /\ nextId' = nextId + Len(r.update)
                  /\ node' = "agent"
                  /\ UNCHANGED exc
  /\ UNCHANGED << env, session_state, button, uiPc, progress, panel, rendered >>

\* The runtime refuses another node execution once the step limit is used up.
GraphRecursionError ==
  /\ uiPc \in {"stream", "invoke"}
  /\ node \in {"agent", "tools"}
  /\ step = RecursionLimit
  /\ node' = "raised"
  /\ exc' = "GraphRecursionError"
  /\ UNCHANGED << env, session_state, button, uiPc, messages, step, nextId,
                  progress, panel, trace, rendered >>

\* The streamed pass is exhausted: line 213 runs the loop again, blocking.
StreamDone ==
  /\ uiPc = "stream"
  /\ node = "__end__"
  /\ uiPc' = "invoke"
  /\ messages' = add_messages(<<>>, InvokeInput)
  /\ node' = "agent"
  /\ step' = 0
  /\ nextId' = 2
  /\ UNCHANGED << env, session_state, button, exc, progress, panel, trace, rendered >>

\* The blocking pass returned: its last message's content is the report.
InvokeDone ==
  /\ uiPc = "invoke"
  /\ node = "__end__"
  /\ panel' = [kind |-> "report", body |-> Last(messages).content]
  /\ uiPc' = "idle"
  /\ rendered' = TRUE
  /\ UNCHANGED << env, session_state, button, messages, node, step, exc, nextId,
                  progress, trace >>

\* except Exception as e: st.error(f"System Malfunction: {e}")
Except ==
  /\ uiPc \in {"stream", "invoke"}
  /\ node = "raised"
  /\ panel' = [kind |-> "error", body |-> << "System Malfunction: ", exc >>]
  /\ uiPc' = "idle"
  /\ rendered' = TRUE
  /\ UNCHANGED << env, session_state, button, messages, node, step, exc, nextId,
                  progress, trace >>

Next ==
  \/ \E text \in TopicInputs, pressed \in BOOLEAN : ScriptRun(text, pressed)
  \/ AgentStep
  \/ ToolsStep
  \/ GraphRecursionError
  \/ StreamDone
  \/ InvokeDone
  \/ Except

Spec == Init /\ [][Next]_vars

\* ------------------------------------------------------- reading the trace

Passes == {"stream", "invoke"}

\* The pass `messages`, `node` and `exc` belong to: the one under way, or the
\* last one run when the script is idle.
LastPass == IF trace.invoke # <<>> THEN "invoke" ELSE "stream"
CurrentPass == IF uiPc \in Passes THEN uiPc ELSE LastPass

\* The i-th node execution of pass p was the agent node and its remote call ...
Replied(p, i) ==
  /\ i \in 1..Len(trace[p])
  /\ trace[p][i].node = "agent"
  /\ trace[p][i].calls # <<>>
  /\ ~trace[p][i].calls[1].out.raises
Reply(p, i) == trace[p][i].calls[1].out
\* ... raised
LlmFaulted(p, i) ==
  /\ i \in 1..Len(trace[p])
  /\ trace[p][i].node = "agent"
  /\ trace[p][i].calls # <<>>
  /\ trace[p][i].calls[1].out.raises

\* The i-th node execution of pass p was the tools node and a search raised.
SearchFaulted(p, i) ==
  /\ i \in 1..Len(trace[p])
  /\ trace[p][i].node = "tools"
  /\ \E k \in 1..Len(trace[p][i].calls) : trace[p][i].calls[k].out.raises

NodeSeq(p) == [i \in 1..Len(trace[p]) |-> trace[p][i].node]
Args(e) == [k \in 1..Len(e.calls) |-> [cap |-> e.calls[k].cap, arg |-> e.calls[k].arg]]
Outs(e) == [k \in 1..Len(e.calls) |-> e.calls[k].out]

\* ------------------------------------------------------------------ claims

\* C1 (as stated): every tool-result message is not the first message and
\* is immediately preceded by an assistant message carrying a matching
\* tool_call.
C1_ToolResultRightAfterAssistant ==
  \A i \in 1..Len(messages) :
    messages[i].type = "tool" =>
      /\ i > 1
      /\ messages[i - 1].type = "ai"
      /\ \E k \in 1..Len(messages[i - 1].tool_calls) :
           messages[i - 1].tool_calls[k].id = messages[i].tool_call_id

\* C1 (amended): every tool-result message is not the first message; it is
\* the k-th message after an assistant message whose k-th tool_call it
\* answers, with only that assistant message's earlier tool-results between.
C1_ToolResultsFollowTheirAssistant ==
  \A i \in 1..Len(messages) :
    messages[i].type = "tool" =>
      \E j \in 1..(i - 1) :
        /\ messages[j].type = "ai"
        /\ i - j <= Len(messages[j].tool_calls)
        /\ messages[j].tool_calls[i - j].id = messages[i].tool_call_id
        /\ \A m \in (j + 1)..(i - 1) : messages[m].type = "tool"

\* C1 witness: a tool-result whose predecessor is another tool-result.
C1_Witness ==
  \E i \in 2..Len(messages) :
    messages[i].type = "tool" /\ messages[i - 1].type = "tool"

C3_FaultBecomesTerminalMessage ==
  \A p \in Passes :
    (p = CurrentPass /\ LlmFaulted(p, Len(trace[p]))) =>
      /\ exc = None
      /\ node = "__end__"
      /\ Last(messages).type = "ai"
      /\ Last(messages).content = << trace[p][Len(trace[p])].calls[1].out.error >>

\* C3 (amended): a fault of the remote generation call is not caught at the
\* agent node: no message is appended, the fault leaves the loop, and the
\* driver's except clause shows it as "System Malfunction: <error>"; no
\* fault gets past the driver.
C3_FaultReachesDriver ==
  \A p \in Passes :
    (p = CurrentPass /\ LlmFaulted(p, Len(trace[p]))) =>
      LET call == trace[p][Len(trace[p])].calls[1]
      IN /\ node = "raised"
         /\ exc = call.out.error
         /\ Wire(messages) = call.arg
         /\ uiPc = "idle" => panel = [kind |-> "error",
                                      body |-> << "System Malfunction: ", call.out.error >>]

\* C3 witness: the generation call raised and the failure panel is shown.
C3_Witness ==
  /\ uiPc = "idle"
  /\ LlmFaulted(CurrentPass, Len(trace[CurrentPass]))
  /\ panel.kind = "error"

\* C4: when a search raises during a tools step, the step still appends a
\* tool-result message with a non-empty error text, no fault leaves the
\* step, and the agent node is next.
C4_SearchFaultBecomesToolResult ==
  \A p \in Passes :
    (p = CurrentPass /\ SearchFaulted(p, Len(trace[p]))) =>
      /\ exc \notin SearchErrors
      /\ Last(messages).type = "tool"
      /\ Last(messages).content # <<>>
      /\ node = "agent" \/ exc = "GraphRecursionError"

\* C5: if the first generation call of a pass returns a message without a
\* tool call, the pass is that one agent step and no tools step, it has
\* ended, and the terminal content (and the report shown after the blocking
\* pass) is that message's content.
C5_NoToolCallEndsAfterOneAgentStep ==
  \A p \in Passes :
    (Replied(p, 1) /\ Reply(p, 1).calls = <<>>) =>
      /\ NodeSeq(p) = << "agent" >>
      /\ p = CurrentPass =>
           /\ node = "__end__"
           /\ Len(messages) = 2
           /\ Last(messages).content = Reply(p, 1).content
      /\ (p = "invoke" /\ uiPc = "idle") =>
           panel = [kind |-> "report", body |-> Reply(p, 1).content]

\* C5 witness: a blocking pass of one agent step with a remote call, rendered.
C5_Witness ==
  /\ uiPc = "idle"
  /\ panel.kind = "report"
  /\ Replied("invoke", 1)
  /\ Reply("invoke", 1).calls = <<>>

\* C6: if the first generation call of a pass returns web_search tool calls
\* and the second returns no tool call, the pass runs agent, tools, agent
\* and ends; each search is issued with the query of its tool_call, and the
\* tool-result appended for it carries that search's output.
C6_AgentToolsAgent ==
  \A p \in Passes :
    ( /\ Replied(p, 1)
      /\ Reply(p, 1).calls # <<>>
      /\ \A k \in 1..Len(Reply(p, 1).calls) : Reply(p, 1).calls[k].name = "web_search" ) =>
      LET calls == Reply(p, 1).calls
      IN /\ (p = CurrentPass /\ Len(trace[p]) = 1) => node = "tools"
         /\ Len(trace[p]) >= 2 =>
              /\ trace[p][2].node = "tools"
              /\ Len(trace[p][2].calls) = Len(calls)
              /\ \A k \in 1..Len(calls) :
                   /\ trace[p][2].calls[k].cap = "search"
                   /\ trace[p][2].calls[k].arg = calls[k].query
         /\ (Replied(p, 3) /\ Reply(p, 3).calls = <<>>) =>
              /\ NodeSeq(p) = << "agent", "tools", "agent" >>
              /\ p = CurrentPass =>
                   /\ node = "__end__"
                   /\ Len(messages) = 3 + Len(calls)
                   /\ \A k \in 1..Len(calls) :
                        /\ messages[2 + k].type = "tool"
                        /\ messages[2 + k].tool_call_id = messages[2].tool_calls[k].id
                        /\ ~trace[p][2].calls[k].out.raises =>
                             messages[2 + k].content = trace[p][2].calls[k].out.value

\* C6 witness: a rendered blocking pass of agent, tools, agent whose search
\* returned a result.
C6_Witness ==
  /\ uiPc = "idle"
  /\ panel.kind = "report"
  /\ NodeSeq("invoke") = << "agent", "tools", "agent" >>
  /\ Len(trace.invoke[2].calls) = 1
  /\ ~trace.invoke[2].calls[1].out.raises

\* C7 (as stated): once a request has been served, the blocking pass has
\* executed the node sequence of the streamed pass and issued the same
\* calls, so that every call was made twice.
C7_BothPassesIdentical ==
  uiPc = "idle" =>
    /\ NodeSeq("invoke") = NodeSeq("stream")
    /\ \A i \in 1..Len(trace.invoke) : Args(trace.invoke[i]) = Args(trace.stream[i])

\* The blocking pass got, in its first n node executions, the answers the
\* streamed pass got.
SameAnswers(n) ==
  \A i \in 1..n :
    i <= Len(trace.stream) /\ Outs(trace.invoke[i]) = Outs(trace.stream[i])

\* C7 (amended): the blocking pass runs only after a streamed pass that
\* ended without a fault; it starts from the same input, and for as long as
\* the capabilities answer as they did in the streamed pass it executes the
\* same nodes and issues the same calls; a blocking pass that ended having
\* got the same answers throughout repeated every call of the streamed pass.
C7_SameAnswersSameRun ==
  /\ (uiPc = "invoke" \/ trace.invoke # <<>>) =>
       /\ trace.stream # <<>>
       /\ Last(trace.stream).node = "agent"
       /\ ~LlmFaulted("stream", Len(trace.stream))
  /\ \A n \in 1..Len(trace.invoke) :
       SameAnswers(n - 1) =>
         /\ n <= Len(trace.stream)
         /\ trace.invoke[n].node = trace.stream[n].node
         /\ Args(trace.invoke[n]) = Args(trace.stream[n])
  /\ (uiPc = "idle" /\ panel.kind = "report" /\ SameAnswers(Len(trace.invoke))) =>
       trace.invoke = trace.stream

\* C7 witness: both passes ran agent, tools, agent with the same calls.
C7_Witness ==
  /\ uiPc = "idle"
  /\ panel.kind = "report"
  /\ Len(trace.invoke) >= 3
  /\ trace.invoke = trace.stream

\* C8: once the report or failure of a RunRequest has been shown, the loop
\* runs again only in a script run in which the user pressed submit with a
\* topic.
C8_RequestConsumedOnce ==
  (uiPc \in Passes /\ button # "submit") => ~rendered

\* C9: within one pass the conversation is append-only: every step leaves
\* the messages it found as a prefix of the messages it leaves.
C9_AppendOnly ==
  [][(uiPc \in Passes /\ uiPc' = uiPc) => IsPrefix(messages, messages')]_vars

\* C9 witness: a pass whose conversation has grown to user, assistant,
\* tool-result, assistant.
C9_Witness ==
  /\ uiPc \in Passes
  /\ Len(messages) >= 4
  /\ messages[1].type = "human"
  /\ Last(messages).type = "ai"

\* Every generation call of pass p so far returned a message with a tool call.
AlwaysToolCalls(p) ==
  /\ trace[p] # <<>>
  /\ \A i \in 1..Len(trace[p]) :
       trace[p][i].node = "agent" => (Replied(p, i) /\ Reply(p, i).calls # <<>>)

\* C10 (as stated, its unbounded-cycling part): as long as every generation
\* call returns a tool call (and no search fault ends the pass) the loop is
\* still cycling between the agent and the tools node.
C10_CyclesForever ==
  (uiPc \in Passes /\ AlwaysToolCalls(uiPc) /\ exc \notin SearchErrors) =>
    node \in {"agent", "tools"}

\* C10 (amended): a pass is at its terminal state exactly when its latest
\* node execution is an agent step whose message carries no tool call
\* (never after a tools step); while every generation call returns a tool
\* call the nodes alternate agent, tools, agent, ... without reaching the
\* terminal state, until the runtime's step limit aborts the pass with a
\* GraphRecursionError.
C10_TerminalOnlyAfterAgent ==
  uiPc \in Passes =>
    LET t == trace[uiPc]
    IN /\ node = "__end__" =>
            /\ t # <<>>
            /\ Last(t).node = "agent"
            /\ Last(messages).type = "ai"
            /\ ~HasToolCalls(Last(messages))
       /\ (t # <<>> /\ Last(t).node = "agent" /\ exc = None /\ ~HasToolCalls(Last(messages))) =>
            node = "__end__"
       /\ (AlwaysToolCalls(uiPc) /\ exc \notin SearchErrors) =>
            /\ \A i \in 1..Len(t) : t[i].node = IF i % 2 = 1 THEN "agent" ELSE "tools"
            /\ \/ node = (IF Len(t) % 2 = 1 THEN "tools" ELSE "agent")
               \/ node = "raised" /\ exc = "GraphRecursionError" /\ step = RecursionLimit

\* C10 witness: a pass of tool calls only, aborted by the step limit.
C10_Witness ==
  /\ uiPc \in Passes
  /\ AlwaysToolCalls(uiPc)
  /\ node = "raised"
  /\ exc = "GraphRecursionError"

====
